---------------------------- MODULE Spec2Model ----------------------------
(***************************************************************************)
(* Pickleball Robin (src/App.tsx): round-robin doubles tournaments.        *)
(*                                                                         *)
(* The module models the state of the App component (its useState cells,   *)
(* localStorage and the URL fragment), one action per handler or effect,   *)
(* and the pure functions calculateStandings, the match enumeration and    *)
(* shuffle of handleCreateTournament, parseInt as MatchItem.handleSave     *)
(* uses it, the share-link decode of the mount effect, and the token       *)
(* handleShare builds.                                                     *)
(*                                                                         *)
(* JavaScript values.  A text is a sequence of one-character strings, so   *)
(* that trim(), parseInt() and template literals are computed and not      *)
(* assumed.  A value of type `number | null` is Num(n) or Null; NaN and    *)
(* undefined are values of their own.  Player identifiers (Player.id) are  *)
(* plain integers and player names plain texts; the strings of a           *)
(* tournament (name, createdAt, location, time) are Str(text), since a     *)
(* decoded tournament may hold undefined there.                            *)
(***************************************************************************)
EXTENDS Integers, Sequences, FiniteSets, TLC

VARIABLES
    mounted,              \* FALSE until the two mount effects have run
    hash,                 \* window.location.hash
    storage,              \* localStorage item 'pickleballTournaments'
    now,                  \* the last reading of the clock (Date.now())
    tournaments,          \* useState<Tournament[]>
    view,                 \* useState<View>
    activeTournamentId,   \* useState<string | null>
    viewOnlyTournament,   \* useState<Tournament | null>
    players,              \* useState<Player[]>, the setup roster
    lastAlert,            \* what the last handler showed with alert(), or "none"
    standings             \* the value useMemo holds for `standings`

vars == <<mounted, hash, storage, now, tournaments, view, activeTournamentId,
          viewOnlyTournament, players, lastAlert, standings>>

-----------------------------------------------------------------------------
(* Bounds of the model.                                                    *)

MaxPlayers == 4       \* the setup form accepts players up to this roster size
MaxRoster == 5        \* largest roster the play specification starts from
MaxClock == 4         \* the clock is read while it shows at most this
MaxTick == 1          \* the clock advances by at most this between two readings
MaxSeed == 2          \* random streams 0..MaxSeed feed the shuffle
RandDenom == 4        \* a draw of Math.random() is k / RandDenom, 0 <= k < RandDenom
MaxTournaments == 1   \* tournaments are created while the collection is shorter
MaxScored == 3        \* a score is saved on a new match while fewer are completed
MaxDeleted == 1       \* matches deleted from one tournament
MaxLater == 1         \* players added to the roster of a later tournament

-----------------------------------------------------------------------------
(* JavaScript values.                                                      *)

Null == [t |-> "null"]
Undefined == [t |-> "undefined"]
NaN == [t |-> "NaN"]
Num(n) == [t |-> "num", v |-> n]
IsNum(x) == x.t = "num"
\* A string, where the same place may hold undefined instead.
Str(s) == [t |-> "str", s |-> s]
\* An array, where the same place may hold undefined instead.
Arr(items) == [t |-> "array", items |-> items]

Digits == <<"0", "1", "2", "3", "4", "5", "6", "7", "8", "9">>
IsDigit(c) == \E d \in 1..10 : Digits[d] = c
DigitVal(c) == (CHOOSE d \in 1..10 : Digits[d] = c) - 1

RECURSIVE NatToText(_)
NatToText(n) ==
    IF n < 10 THEN <<Digits[n + 1]>>
    ELSE NatToText(n \div 10) \o <<Digits[(n % 10) + 1]>>

\* String(n) for an integer n, as a template literal `${n}` renders it.
NumToText(n) == IF n < 0 THEN <<"-">> \o NatToText(-n) ELSE NatToText(n)

IsSpace(c) == c = " "

RECURSIVE TrimStart(_)
TrimStart(s) ==
    IF s # <<>> /\ IsSpace(Head(s)) THEN TrimStart(Tail(s)) ELSE s

RECURSIVE TrimEnd(_)
TrimEnd(s) ==
    IF s # <<>> /\ IsSpace(s[Len(s)]) THEN TrimEnd(SubSeq(s, 1, Len(s) - 1)) ELSE s

\* String.prototype.trim
Trim(s) == TrimEnd(TrimStart(s))

RECURSIVE DigitPrefixVal(_, _)
\* the value of the longest prefix of digits of s, read after the digits acc
DigitPrefixVal(s, acc) ==
    IF s # <<>> /\ IsDigit(Head(s))
    THEN DigitPrefixVal(Tail(s), 10 * acc + DigitVal(Head(s)))
    ELSE acc

\* parseInt(s, 10): leading white space, an optional sign, then digits up to
\* the first character that is none; NaN when there is no digit.
ParseInt(s) ==
    LET t == TrimStart(s)
        neg == t # <<>> /\ Head(t) = "-"
        signed == t # <<>> /\ Head(t) \in {"-", "+"}
        body == IF signed THEN Tail(t) ELSE t
    IN  IF body = <<>> \/ ~IsDigit(Head(body)) THEN NaN
        ELSE Num(IF neg THEN 0 - DigitPrefixVal(body, 0) ELSE DigitPrefixVal(body, 0))


-----------------------------------------------------------------------------
(* handleCreateTournament: the enumeration i < j < k < l and the shuffle.  *)

MinPlayers == 4

\* Quads with the innermost loop started at l = k instead of l = k + 1.
QuadsInnerLoopFromK(n) ==
    {q \in (1..n) \X (1..n) \X (1..n) \X (1..n) :
        q[1] < q[2] /\ q[2] < q[3] /\ q[3] <= q[4]}

\* Roster positions (1-based here, 0-based in the code) of one pass of the
\* innermost loop body.
Quads(n) == {q \in (1..n) \X (1..n) \X (1..n) \X (1..n) :
                q[1] < q[2] /\ q[2] < q[3] /\ q[3] < q[4]}

\* q1 is visited before q2 by the four nested loops.
LoopBefore(q1, q2) ==
    \E d \in 1..4 : q1[d] < q2[d] /\ \A e \in 1..(d - 1) : q1[e] = q2[e]

RECURSIVE InLoopOrder(_)
InLoopOrder(qs) ==
    IF qs = {} THEN <<>>
    ELSE LET first == CHOOSE q \in qs : \A r \in qs \ {q} : LoopBefore(q, r)
         IN  <<first>> \o InLoopOrder(qs \ {first})

\* `${p1.id}-${p2.id}-${p3.id}-${p4.id}`
MatchId(a, b, c, d) ==
    NumToText(a) \o <<"-">> \o NumToText(b) \o <<"-">> \o NumToText(c)
        \o <<"-">> \o NumToText(d)

\* The object pushed for the quadruple q of roster ps.
NewMatch(ps, q) ==
    [id |-> MatchId(ps[q[1]].id, ps[q[2]].id, ps[q[3]].id, ps[q[4]].id),
     team1 |-> [player1 |-> ps[q[1]], player2 |-> ps[q[2]]],
     team2 |-> [player1 |-> ps[q[3]], player2 |-> ps[q[4]]],
     score1 |-> Null,
     score2 |-> Null,
     completed |-> FALSE]

\* The array `matches` when the four loops are done.
GenerateMatches(ps) ==
    LET qs == InLoopOrder(Quads(Len(ps)))
    IN  [x \in 1..Len(qs) |-> NewMatch(ps, qs[x])]

\* Math.random() at the pass with loop index i of the shuffle, as the
\* numerator of a fraction of RandDenom, in the random stream `seed`.
RandomDraw(seed, i) == (seed * i) % RandDenom

\* Math.floor(Math.random() * (i + 1))
ShuffleIndex(seed, i) == (RandomDraw(seed, i) * (i + 1)) \div RandDenom

\* Swap as matches[i] = matches[j]; matches[j] = matches[i], which loses
\* the match at i.
SwapWithoutTemp(ms, i, j) == [ms EXCEPT ![i + 1] = ms[j + 1]]

\* [matches[i], matches[j]] = [matches[j], matches[i]], i and j 0-based
Swap(ms, i, j) == [ms EXCEPT ![i + 1] = ms[j + 1], ![j + 1] = ms[i + 1]]

RECURSIVE ShuffleFrom(_, _, _)
\* for (let i = ...; i > 0; i--) from loop index i on
ShuffleFrom(ms, i, seed) ==
    IF i > 0 THEN ShuffleFrom(Swap(ms, i, ShuffleIndex(seed, i)), i - 1, seed)
    ELSE ms

Shuffle(ms, seed) == ShuffleFrom(ms, Len(ms) - 1, seed)

-----------------------------------------------------------------------------
(* calculateStandings                                                      *)

\* Property keys that are array indices come first in ascending order when
\* an object's own keys are listed; every other key follows in the order
\* in which it was created.  An array index is an integer from 0 to 2^32 - 2.
\* The model's integers are narrower than that, so the limit is scaled down:
\* what it keeps is that every index of a decoded roster lies below it and
\* every reading of the clock (milliseconds since 1970) at or above it.
ArrayIndexLimit == 100
IsArrayIndex(k) == k >= 0 /\ k < ArrayIndexLimit

ZeroEntry(p) ==
    [playerId |-> p.id, playerName |-> p.name, wins |-> 0, losses |-> 0,
     pointsFor |-> 0, pointsAgainst |-> 0, pointDifferential |-> 0,
     matchesPlayed |-> 0]

RECURSIVE InitStats(_, _)
\* players.reduce(...): acc[player.id] = {...}, a later player with the same
\* id overwrites the entry of the earlier one
InitStats(ps, acc) ==
    IF ps = <<>> THEN acc
    ELSE LET p == Head(ps)
             rest == [k \in DOMAIN acc \ {p.id} |-> acc[k]]
         IN  InitStats(Tail(ps),
                       [k \in DOMAIN acc \cup {p.id} |->
                            IF k = p.id THEN ZeroEntry(p) ELSE rest[k]])

EmptyStats == [k \in {} |-> 0]

\* score ?? 0
OrZero(score) == IF IsNum(score) THEN score.v ELSE 0

\* stats[id], which is undefined when there is no such key
Has(stats, id) == id \in DOMAIN stats

\* if (s) s.field += amount, s the object stats[id]
Bump(stats, id, field, amount) ==
    IF Has(stats, id) THEN [stats EXCEPT ![id][field] = @ + amount] ELSE stats

\* s.pointsFor += for; s.pointsAgainst += against
AddPoints(stats, id, for, against) ==
    Bump(Bump(stats, id, "pointsFor", for), id, "pointsAgainst", against)

\* The body of forEach with the credit of the winners only: the two Bumps of
\* "losses" of each branch are left out.
ApplyMatchWinnersOnly(stats, m) ==
    LET s1 == OrZero(m.score1)
        s2 == OrZero(m.score2)
        a == m.team1.player1.id
        b == m.team1.player2.id
        c == m.team2.player1.id
        d == m.team2.player2.id
        played == Bump(Bump(Bump(Bump(stats, a, "matchesPlayed", 1),
                                 b, "matchesPlayed", 1),
                            c, "matchesPlayed", 1),
                       d, "matchesPlayed", 1)
        pts1 == IF Has(stats, a) /\ Has(stats, b)
                THEN AddPoints(AddPoints(played, a, s1, s2), b, s1, s2)
                ELSE played
        pts2 == IF Has(stats, c) /\ Has(stats, d)
                THEN AddPoints(AddPoints(pts1, c, s2, s1), d, s2, s1)
                ELSE pts1
    IN  IF s1 > s2 THEN Bump(Bump(pts2, a, "wins", 1), b, "wins", 1)
        ELSE IF s2 > s1 THEN Bump(Bump(pts2, c, "wins", 1), d, "wins", 1)
        ELSE pts2

\* The body of forEach for one completed match.
ApplyMatch(stats, m) ==
    LET s1 == OrZero(m.score1)
        s2 == OrZero(m.score2)
        a == m.team1.player1.id
        b == m.team1.player2.id
        c == m.team2.player1.id
        d == m.team2.player2.id
        played == Bump(Bump(Bump(Bump(stats, a, "matchesPlayed", 1),
                                 b, "matchesPlayed", 1),
                            c, "matchesPlayed", 1),
                       d, "matchesPlayed", 1)
        pts1 == IF Has(stats, a) /\ Has(stats, b)
                THEN AddPoints(AddPoints(played, a, s1, s2), b, s1, s2)
                ELSE played
        pts2 == IF Has(stats, c) /\ Has(stats, d)
                THEN AddPoints(AddPoints(pts1, c, s2, s1), d, s2, s1)
                ELSE pts1
    IN  IF s1 > s2
        THEN Bump(Bump(Bump(Bump(pts2, a, "wins", 1), b, "wins", 1),
                       c, "losses", 1), d, "losses", 1)
        ELSE IF s2 > s1
        THEN Bump(Bump(Bump(Bump(pts2, c, "wins", 1), d, "wins", 1),
                       a, "losses", 1), b, "losses", 1)
        ELSE pts2

RECURSIVE ApplyMatches(_, _)
\* matches.filter(m => m.completed).forEach(...)
ApplyMatches(stats, ms) ==
    IF ms = <<>> THEN stats
    ELSE ApplyMatches(IF Head(ms).completed THEN ApplyMatch(stats, Head(ms))
                      ELSE stats,
                      Tail(ms))

RECURSIVE FirstSeen(_, _)
\* the ids of ps, each once, in the order of its first occurrence
FirstSeen(ps, seen) ==
    IF ps = <<>> THEN <<>>
    ELSE IF Head(ps).id \in seen THEN FirstSeen(Tail(ps), seen)
    ELSE <<Head(ps).id>> \o FirstSeen(Tail(ps), seen \cup {Head(ps).id})

RECURSIVE Ascending(_)
Ascending(ks) ==
    IF ks = {} THEN <<>>
    ELSE LET least == CHOOSE k \in ks : \A o \in ks : k <= o
         IN  <<least>> \o Ascending(ks \ {least})

\* The key order of Object.values(stats) for the stats built from roster ps.
KeyOrder(ps) ==
    LET created == FirstSeen(ps, {})
    IN  Ascending({created[x] : x \in {y \in 1..Len(created) : IsArrayIndex(created[y])}})
            \o SelectSeq(created, LAMBDA k : ~IsArrayIndex(k))

\* Compare with the first two criteria in the other order: differential,
\* then wins.
CompareDifferentialFirst(a, b) ==
    IF b.pointDifferential # a.pointDifferential
    THEN b.pointDifferential - a.pointDifferential
    ELSE IF b.wins # a.wins THEN b.wins - a.wins
    ELSE IF b.pointsFor # a.pointsFor THEN b.pointsFor - a.pointsFor
    ELSE a.losses - b.losses

\* The comparator of .sort(): negative when a goes before b.
Compare(a, b) ==
    IF b.wins # a.wins THEN b.wins - a.wins
    ELSE IF b.pointDifferential # a.pointDifferential
    THEN b.pointDifferential - a.pointDifferential
    ELSE IF b.pointsFor # a.pointsFor THEN b.pointsFor - a.pointsFor
    ELSE a.losses - b.losses

RECURSIVE InsertSorted(_, _)
\* e put behind every entry of the sorted es that does not come after it
InsertSorted(es, e) ==
    IF es = <<>> THEN <<e>>
    ELSE IF Compare(Head(es), e) <= 0 THEN <<Head(es)>> \o InsertSorted(Tail(es), e)
    ELSE <<e>> \o es

RECURSIVE StableSort(_)
\* Array.prototype.sort is stable
StableSort(es) ==
    IF es = <<>> THEN <<>>
    ELSE InsertSorted(StableSort(SubSeq(es, 1, Len(es) - 1)), es[Len(es)])

\* A completed match that names a player that is undefined: reading its .id
\* throws a TypeError.
StandingsThrow(t) ==
    \E x \in 1..Len(t.matches) :
        /\ t.matches[x].completed
        /\ \/ t.matches[x].team1.player1 = Undefined
           \/ t.matches[x].team1.player2 = Undefined
           \/ t.matches[x].team2.player1 = Undefined
           \/ t.matches[x].team2.player2 = Undefined

\* calculateStandings(tournament), for a tournament on which it does not throw
calculateStandings(t) ==
    IF t = Null THEN <<>>
    ELSE LET stats == ApplyMatches(InitStats(t.players, EmptyStats), t.matches)
             keys == KeyOrder(t.players)
             values == [x \in 1..Len(keys) |->
                          [stats[keys[x]] EXCEPT
                              !.pointDifferential =
                                  stats[keys[x]].pointsFor - stats[keys[x]].pointsAgainst]]
         IN  StableSort(values)


-----------------------------------------------------------------------------
(* The share link: base64url, inflate, JSON.parse, and the rebuild of the  *)
(* players and matches (the mount effect).                                 *)
(*                                                                         *)
(* A token is BadBase64 (atob throws on it) or Base64Of(bytes); bytes are  *)
(* NoBytes or NotDeflate (no deflate stream: pako.inflate throws, or       *)
(* returns undefined, which JSON.parse throws on) or DeflateOf(text); a    *)
(* text is NotJson (JSON.parse throws) or JsonOf(data).  A compact match   *)
(* record of data.m is Arr(items) or null.                                 *)

BadBase64 == [t |-> "badBase64"]
Base64Of(bytes) == [t |-> "base64", bytes |-> bytes]
\* The empty text, which window.atob turns into no bytes at all.
NoBytes == [t |-> "noBytes"]
EmptyToken == Base64Of(NoBytes)
NotDeflate == [t |-> "notDeflate"]
DeflateOf(text) == [t |-> "deflate", text |-> text]
NotJson == [t |-> "notJson"]
JsonOf(data) == [t |-> "json", data |-> data]

Threw == [t |-> "threw"]

\* base64UrlToUint8Array: window.atob throws on what is no base64
base64UrlToUint8Array(token) ==
    IF token.t = "base64" THEN token.bytes ELSE Threw

\* pako.inflate(compressed, { to: 'string' })
Inflate(bytes) == IF bytes.t = "deflate" THEN bytes.text ELSE Threw

\* JSON.parse that answers a text that is no JSON with an empty tournament
\* object instead of throwing.
JsonParseLenient(text) ==
    IF text.t = "json" THEN text.data
    ELSE [v |-> Num(1), n |-> Undefined, l |-> Undefined, t |-> Undefined,
          c |-> Undefined, p |-> Arr(<<>>), m |-> Arr(<<>>)]

\* JSON.parse(jsonString)
JsonParse(text) == IF text.t = "json" THEN text.data ELSE Threw

\* data.p.map((name, index) => ({ id: index, name: name }))
DecodedPlayers(p) == [x \in 1..Len(p) |-> [id |-> x - 1, name |-> p[x]]]

\* matchData[x] as the destructuring reads it, undefined past the end of the
\* array
Element(matchData, x) ==
    IF x + 1 <= Len(matchData.items) THEN matchData.items[x + 1] ELSE Undefined

\* players[idx]: the element at an index of the array, undefined otherwise
PlayerAt(ps, idx) ==
    IF IsNum(idx) /\ idx.v >= 0 /\ idx.v < Len(ps) THEN ps[idx.v + 1] ELSE Undefined

\* `${idx}` in the template literal of the match id
ScalarText(x) ==
    IF IsNum(x) THEN NumToText(x.v)
    ELSE IF x = Null THEN <<"n", "u", "l", "l">>
    ELSE <<"u", "n", "d", "e", "f", "i", "n", "e", "d">>

\* The match rebuilt from one compact record.
DecodedMatch(ps, matchData) ==
    LET p1_idx == Element(matchData, 0)
        p2_idx == Element(matchData, 1)
        p3_idx == Element(matchData, 2)
        p4_idx == Element(matchData, 3)
        score1 == Element(matchData, 4)
        score2 == Element(matchData, 5)
    IN  [id |-> ScalarText(p1_idx) \o <<"-">> \o ScalarText(p2_idx) \o <<"-">>
                    \o ScalarText(p3_idx) \o <<"-">> \o ScalarText(p4_idx),
         team1 |-> [player1 |-> PlayerAt(ps, p1_idx), player2 |-> PlayerAt(ps, p2_idx)],
         team2 |-> [player1 |-> PlayerAt(ps, p3_idx), player2 |-> PlayerAt(ps, p4_idx)],
         score1 |-> score1,
         score2 |-> score2,
         completed |-> (score1 # Null /\ score2 # Null)]

SharedId(t) == <<"s", "h", "a", "r", "e", "d", "_">> \o NumToText(t)

\* const [...] = matchData throws a TypeError when matchData is null, which
\* is not iterable.
Destructurable(matchData) == matchData # Null

\* The try block of the mount effect on the text behind '#/view/', read at
\* clock reading t: the tournament handed to setViewOnlyTournament, or Threw.
\* data.p.map and data.m.map throw a TypeError when data.p or data.m is
\* undefined, and the callback of data.m.map throws on a record that is null.
DecodeToken(token, t) ==
    LET compressed == base64UrlToUint8Array(token)
        jsonString == IF compressed = Threw THEN Threw ELSE Inflate(compressed)
        data == IF jsonString = Threw THEN Threw ELSE JsonParse(jsonString)
    IN  IF data = Threw THEN Threw
        ELSE IF data.p = Undefined \/ data.m = Undefined THEN Threw
        ELSE IF \E x \in 1..Len(data.m.items) : ~Destructurable(data.m.items[x])
        THEN Threw
        ELSE LET ps == DecodedPlayers(data.p.items)
             IN  [id |-> SharedId(t),
                  name |-> data.n,
                  createdAt |-> data.c,
                  players |-> ps,
                  matches |-> [x \in 1..Len(data.m.items) |->
                                  DecodedMatch(ps, data.m.items[x])],
                  location |-> data.l,
                  time |-> data.t]

-----------------------------------------------------------------------------
(* handleShare: the token behind '#/view/' of the link it builds.  The     *)
(* link goes to the share dialog, whose state is not part of the model, so *)
(* handleShare is the function from the tournament to the token.           *)

\* playerIdToIndexMap.get(id): Map.set overwrites, so an id that several
\* players of the roster carry maps to the index of the last of them.
PlayerIndex(ps, id) ==
    LET at == {x \in 1..Len(ps) : ps[x].id = id}
    IN  IF at = {} THEN Undefined
        ELSE Num((CHOOSE x \in at : \A y \in at : y <= x) - 1)

\* value || undefined, for a string or undefined
OrUndefined(value) ==
    IF value = Undefined \/ value = Str(<<>>) THEN Undefined ELSE value

\* An element of an array as JSON.stringify writes it and JSON.parse reads it
\* back: undefined and NaN become null.
JsonElement(x) == IF x = Undefined \/ x = NaN THEN Null ELSE x

\* One element of compactMatches, through JSON.
CompactMatch(ps, match) ==
    Arr(<<JsonElement(PlayerIndex(ps, match.team1.player1.id)),
          JsonElement(PlayerIndex(ps, match.team1.player2.id)),
          JsonElement(PlayerIndex(ps, match.team2.player1.id)),
          JsonElement(PlayerIndex(ps, match.team2.player2.id)),
          JsonElement(match.score1),
          JsonElement(match.score2)>>)

\* shareableData, through JSON: a property that is undefined is left out of
\* the text, and reads as undefined from the parsed object.
ShareableData(tournament) ==
    [v |-> Num(1),
     n |-> tournament.name,
     l |-> OrUndefined(tournament.location),
     t |-> OrUndefined(tournament.time),
     c |-> tournament.createdAt,
     p |-> Arr([x \in 1..Len(tournament.players) |-> tournament.players[x].name]),
     m |-> Arr([y \in 1..Len(tournament.matches) |->
                   CompactMatch(tournament.players, tournament.matches[y])])]

\* The text behind '#/view/' of the link handleShare builds for a tournament
\* of the collection.
handleShare(tournament) ==
    Base64Of(DeflateOf(JsonOf(ShareableData(tournament))))

-----------------------------------------------------------------------------
(* localStorage and the URL fragment.                                      *)

NoItem == Null
\* JSON.stringify(tournaments) as stored; JSON keeps the numbers, strings,
\* booleans, nulls, arrays and objects a stored collection is made of.
ItemOf(ts) == [t |-> "item", parsed |-> ts]

NoHash == [view |-> FALSE]
\* '#/view/' followed by token
ViewHash(token) == [view |-> TRUE, token |-> token]

\* The persistence effect, run for a render with collection ts and
\* view-only tournament vot over storage st.
PersistEffect(ts, vot, st) == IF vot = Null THEN ItemOf(ts) ELSE st


-----------------------------------------------------------------------------
(* What the user types and what the environment supplies.                  *)

\* The first reading of the clock.
ClockStart == ArrayIndexLimit + MinPlayers + 1

\* The name of the k-th player of the pool.
PoolName(k) == <<"P">> \o NatToText(k)

\* Contents of the player-name field when the form is submitted.
NameTexts ==
    {PoolName(k) : k \in 1..MaxPlayers}
        \cup {<<>>, <<" ">>, <<" ">> \o PoolName(1) \o <<" ">>}

\* Contents of the three text fields of the setup form.
SetupForms ==
    {[name |-> <<>>, location |-> <<>>, time |-> <<>>],
     [name |-> <<" ">>, location |-> <<"L">>, time |-> <<>>],
     [name |-> <<" ", "T">>, location |-> <<>>, time |-> <<>>],
     [name |-> <<"T">>, location |-> <<"L", " ">>, time |-> <<"9">>]}

\* Contents of a score field of a match card (an <input type="number">).
ScoreTexts == {<<>>, <<"5">>, <<"1", "1">>, <<"-", "1">>}

TournId(t) == <<"t", "o", "u", "r", "n", "_">> \o NumToText(t)

\* new Date().toISOString() at clock reading t: a text that names the instant
IsoString(t) == NumToText(t) \o <<"Z">>

\* A tournament an earlier session created and stored: four players added
\* at four clock readings, its one match played 11-5.
StoredRoster ==
    [k \in 1..MinPlayers |-> [id |-> ArrayIndexLimit + k, name |-> PoolName(k)]]

StoredTournament ==
    [id |-> TournId(ArrayIndexLimit + MinPlayers),
     name |-> Str(<<"S">>),
     createdAt |-> Str(IsoString(ArrayIndexLimit + MinPlayers)),
     players |-> StoredRoster,
     matches |-> <<[NewMatch(StoredRoster, <<1, 2, 3, 4>>) EXCEPT
                       !.score1 = Num(11), !.score2 = Num(5), !.completed = TRUE]>>,
     location |-> Str(<<>>),
     time |-> Str(<<>>)]

InitialStorages == {NoItem, ItemOf(<<StoredTournament>>)}

\* The JSON object of a share link with roster names p and match records m.
SharedData(p, m) ==
    [v |-> Num(1), n |-> Str(<<"V">>), l |-> Undefined, t |-> Undefined,
     c |-> Str(IsoString(ArrayIndexLimit)), p |-> p, m |-> m]

FourNames == [k \in 1..MinPlayers |-> PoolName(k)]

\* Compact match records [p1, p2, p3, p4, score1, score2] a link may hold.
SharedRecords ==
    {Arr(<<Num(0), Num(1), Num(2), Num(3), Null, Null>>),
     Arr(<<Num(0), Num(1), Num(2), Num(3), Num(11), Num(5)>>),
     Arr(<<Num(0), Num(1), Num(2), Num(3), Num(5), Null>>),
     Arr(<<Num(0), Num(1), Num(2), Num(3), Num(-1), Num(5)>>),
     Arr(<<Num(0), Num(1), Num(2), Num(7), Null, Null>>),
     Arr(<<Num(0), Num(1), Num(2), Num(3)>>)}

\* The texts behind '#/view/' the app is opened on.
SharedTokens ==
    {BadBase64,
     EmptyToken,
     Base64Of(NotDeflate),
     Base64Of(DeflateOf(NotJson)),
     Base64Of(DeflateOf(JsonOf(SharedData(Undefined, Arr(<<>>))))),
     Base64Of(DeflateOf(JsonOf(SharedData(Arr(FourNames), Undefined)))),
     Base64Of(DeflateOf(JsonOf(SharedData(Arr(FourNames),
         Arr(<<Arr(<<Num(0), Num(1), Num(2), Num(3), Null, Null>>), Null>>)))))}
        \cup {Base64Of(DeflateOf(JsonOf(SharedData(Arr(FourNames), Arr(<<r>>))))) :
                r \in SharedRecords}

InitialHashes == {NoHash} \cup {ViewHash(token) : token \in SharedTokens}

-----------------------------------------------------------------------------
(* The App component.                                                      *)

Init ==
    /\ mounted = FALSE
    /\ hash \in InitialHashes
    /\ storage \in InitialStorages
    /\ now = ClockStart
    /\ tournaments = <<>>
    /\ view = "tournamentList"
    /\ activeTournamentId = Null
    /\ viewOnlyTournament = Null
    /\ players = <<>>
    /\ lastAlert = "none"
    /\ standings = <<>>

\* Date.now() after `dt` more milliseconds.
ClockAfter(dt) == now + dt
ClockReadable(dt) == now + dt <= ClockStart + MaxClock

\* tournaments.find(t => t.id === activeTournamentId) || null
activeTournament ==
    LET found == {x \in 1..Len(tournaments) : Str(tournaments[x].id) = activeTournamentId}
    IN  IF found = {} THEN Null
        ELSE tournaments[CHOOSE x \in found : \A y \in found : x <= y]

tournamentForDisplay ==
    IF viewOnlyTournament # Null THEN viewOnlyTournament ELSE activeTournament

isReadOnly == viewOnlyTournament # Null

\* The dependencies of the standings memo compared by the id of the
\* tournament alone.
StandingsDepsChangedById(before, after) ==
    IF before = Null \/ after = Null THEN before # after ELSE before.id # after.id

\* useMemo(..., [tournamentForDisplay]): the dependency of this render is
\* not the one of the render before.  A handler that changes a tournament
\* builds a new object for it, and nothing writes into an object a render
\* has seen, so the dependency is the same object exactly when the
\* tournament on display is the same value.
StandingsDepsChanged(before, after) == before # after

\* What the render that follows a step leaves in the standings memo: the
\* value it held, or calculateStandings of the tournament now on display
\* (Threw when that call throws and the render with it).
Rendered ==
    standings' =
        IF StandingsDepsChanged(tournamentForDisplay, tournamentForDisplay')
        THEN IF tournamentForDisplay' # Null /\ StandingsThrow(tournamentForDisplay')
             THEN Threw
             ELSE calculateStandings(tournamentForDisplay')
        ELSE standings

\* The two effects of the first render and the re-render they cause.  The
\* persistence effect first runs for the first render, whose collection is
\* empty and whose view-only tournament is null, and runs again for the
\* re-render when one of the two has changed.
Mount(dt) ==
    /\ ~mounted
    /\ ClockReadable(dt)
    /\ mounted' = TRUE
    /\ IF hash.view
       THEN /\ IF DecodeToken(hash.token, ClockAfter(dt)) = Threw
               THEN /\ lastAlert' = "invalidLink"
                    /\ hash' = NoHash
                    /\ UNCHANGED <<viewOnlyTournament, view, now>>
               ELSE /\ viewOnlyTournament' = DecodeToken(hash.token, ClockAfter(dt))
                    /\ view' = "tournament"
                    /\ now' = ClockAfter(dt)
                    /\ UNCHANGED <<lastAlert, hash>>
            /\ UNCHANGED tournaments
       ELSE /\ tournaments' = IF storage = NoItem THEN tournaments ELSE storage.parsed
            /\ UNCHANGED <<viewOnlyTournament, view, now, lastAlert, hash>>
    /\ storage' = PersistEffect(tournaments', viewOnlyTournament',
                                PersistEffect(tournaments, viewOnlyTournament, storage))
    /\ UNCHANGED <<activeTournamentId, players>>
    /\ Rendered

\* Recompute with a comparator that sorts the roster of the tournament of
\* the collection on display in place: players.sort() in the place of the
\* sort of the mapped entries.
RecomputeSortingRoster ==
    /\ mounted /\ tournamentForDisplay # Null /\ ~isReadOnly
    /\ ~StandingsThrow(tournamentForDisplay)
    /\ standings' = calculateStandings(tournamentForDisplay)
    /\ tournaments' =
          [x \in 1..Len(tournaments) |->
              IF Str(tournaments[x].id) = activeTournamentId
              THEN [tournaments[x] EXCEPT !.players =
                       [y \in 1..Len(@) |-> @[Len(@) + 1 - y]]]
              ELSE tournaments[x]]
    /\ UNCHANGED <<mounted, hash, storage, now, view, activeTournamentId,
                   viewOnlyTournament, players, lastAlert>>

\* React calls the function of the standings memo once more for the
\* tournament on display (the second call of Strict Mode, or a memo cache
\* it has dropped).  calculateStandings reads players and matches; what it
\* writes are the entries it has created in reduce and the array map has
\* returned, which sort reorders.
Recompute ==
    /\ mounted /\ tournamentForDisplay # Null /\ ~isReadOnly
    /\ ~StandingsThrow(tournamentForDisplay)
    /\ standings' = calculateStandings(tournamentForDisplay)
    /\ UNCHANGED <<mounted, hash, storage, now, tournaments, view, activeTournamentId,
                   viewOnlyTournament, players, lastAlert>>

\* The form of the setup screen is submitted with `text` in the name field,
\* dt milliseconds after the last reading of the clock.
handleAddPlayer(text, dt) ==
    /\ mounted /\ view = "setup"
    /\ Len(players) < MaxPlayers
    /\ ClockReadable(dt)
    /\ LET name == Trim(text)
       IN  IF name # <<>> /\ ~\E x \in 1..Len(players) : players[x].name = name
           THEN /\ players' = Append(players, [id |-> ClockAfter(dt), name |-> name])
                /\ now' = ClockAfter(dt)
           ELSE UNCHANGED <<players, now>>
    /\ lastAlert' = "none"
    /\ UNCHANGED <<mounted, hash, storage, tournaments, view, activeTournamentId,
                   viewOnlyTournament>>
    /\ Rendered

handleRemovePlayer(id) ==
    /\ mounted /\ view = "setup"
    /\ players' = SelectSeq(players, LAMBDA p : p.id # id)
    /\ lastAlert' = "none"
    /\ UNCHANGED <<mounted, hash, storage, now, tournaments, view, activeTournamentId,
                   viewOnlyTournament>>
    /\ Rendered

\* TooFewPlayers with the limit off by one: players.length < 3
TooFewPlayersBelowThree(ps) == Len(ps) < MinPlayers - 1

\* players.length < 4
TooFewPlayers(ps) == Len(ps) < MinPlayers

\* The tournament handleCreateTournament builds from the roster ps and the
\* form at clock reading t, its shuffle fed by random stream seed.
NewTournament(ps, form, t, seed) ==
    [id |-> TournId(t),
     name |-> Str(Trim(form.name)),
     createdAt |-> Str(IsoString(t)),
     players |-> ps,
     matches |-> Shuffle(GenerateMatches(ps), seed),
     location |-> Str(Trim(form.location)),
     time |-> Str(form.time)]

handleCreateTournament(form, dt, seed) ==
    /\ mounted /\ view = "setup"
    /\ ClockReadable(dt)
    /\ IF TooFewPlayers(players)
       THEN /\ lastAlert' = "needPlayers"
            /\ UNCHANGED <<storage, now, tournaments, view, activeTournamentId>>
       ELSE IF Trim(form.name) = <<>>
       THEN /\ lastAlert' = "needName"
            /\ UNCHANGED <<storage, now, tournaments, view, activeTournamentId>>
       ELSE LET newTournament == NewTournament(players, form, ClockAfter(dt), seed)
            IN  /\ tournaments' = Append(tournaments, newTournament)
                /\ activeTournamentId' = Str(newTournament.id)
                /\ view' = "tournament"
                /\ now' = ClockAfter(dt)
                /\ lastAlert' = "none"
                /\ storage' = PersistEffect(tournaments', viewOnlyTournament, storage)
    /\ UNCHANGED <<mounted, hash, viewOnlyTournament, players>>
    /\ Rendered

\* The Cancel button of the setup screen.
CancelSetup ==
    /\ mounted /\ view = "setup"
    /\ view' = "tournamentList"
    /\ lastAlert' = "none"
    /\ UNCHANGED <<mounted, hash, storage, now, tournaments, activeTournamentId,
                   viewOnlyTournament, players>>
    /\ Rendered

handleStartNewTournament ==
    /\ mounted /\ view = "tournamentList"
    /\ players' = <<>>
    /\ view' = "setup"
    /\ lastAlert' = "none"
    /\ UNCHANGED <<mounted, hash, storage, now, tournaments, activeTournamentId,
                   viewOnlyTournament>>
    /\ Rendered

handleLoadTournament(id) ==
    /\ mounted /\ view = "tournamentList"
    /\ activeTournamentId' = Str(id)
    /\ view' = "tournament"
    /\ lastAlert' = "none"
    /\ UNCHANGED <<mounted, hash, storage, now, tournaments, viewOnlyTournament, players>>
    /\ Rendered

handleDeleteTournament(id, confirmed) ==
    /\ mounted /\ view = "tournamentList"
    /\ IF confirmed
       THEN /\ tournaments' = SelectSeq(tournaments, LAMBDA t : t.id # id)
            /\ storage' = PersistEffect(tournaments', viewOnlyTournament, storage)
       ELSE UNCHANGED <<tournaments, storage>>
    /\ lastAlert' = "none"
    /\ UNCHANGED <<mounted, hash, now, view, activeTournamentId, viewOnlyTournament,
                   players>>
    /\ Rendered

handleBackToList ==
    /\ mounted /\ view = "tournament" /\ ~isReadOnly
    /\ activeTournamentId' = Null
    /\ view' = "tournamentList"
    /\ lastAlert' = "none"
    /\ UNCHANGED <<mounted, hash, storage, now, tournaments, viewOnlyTournament, players>>
    /\ Rendered

\* The button that leaves the read-only view: window.location.hash = ''
ExitViewMode ==
    /\ mounted /\ view = "tournament" /\ isReadOnly
    /\ hash' = NoHash
    /\ lastAlert' = "none"
    /\ UNCHANGED <<mounted, storage, now, tournaments, view, activeTournamentId,
                   viewOnlyTournament, players>>
    /\ Rendered

\* setTournaments(prev => prev.map(...)) of handleUpdateScore
UpdateScore(ts, matchId, score1, score2) ==
    [x \in 1..Len(ts) |->
        IF Str(ts[x].id) = activeTournamentId
        THEN [ts[x] EXCEPT !.matches =
                 [y \in 1..Len(ts[x].matches) |->
                     IF ts[x].matches[y].id = matchId
                     THEN [ts[x].matches[y] EXCEPT
                              !.score1 = score1, !.score2 = score2, !.completed = TRUE]
                     ELSE ts[x].matches[y]]]
        ELSE ts[x]]

Completed(t) == {y \in 1..Len(t.matches) : t.matches[y].completed}

\* MatchItem.handleSave on the card of match matchId, with text1 and text2
\* in its two score fields, and the handleUpdateScore it calls.
handleSave(matchId, text1, text2) ==
    /\ mounted /\ view = "tournament" /\ ~isReadOnly
    /\ tournamentForDisplay # Null
    /\ \E y \in 1..Len(tournamentForDisplay.matches) :
            /\ tournamentForDisplay.matches[y].id = matchId
            /\ \/ tournamentForDisplay.matches[y].completed
               \/ Cardinality(Completed(tournamentForDisplay)) < MaxScored
    /\ LET s1 == ParseInt(text1)
           s2 == ParseInt(text2)
       IN  IF s1 # NaN /\ s2 # NaN
           THEN /\ tournaments' = UpdateScore(tournaments, matchId, s1, s2)
                /\ storage' = PersistEffect(tournaments', viewOnlyTournament, storage)
           ELSE UNCHANGED <<tournaments, storage>>
    /\ lastAlert' = "none"
    /\ UNCHANGED <<mounted, hash, now, view, activeTournamentId, viewOnlyTournament,
                   players>>
    /\ Rendered

\* DeleteMatch that also takes the players of the deleted match off the
\* roster of the tournament.
DeleteMatchAndItsPlayers(ts, matchId) ==
    [x \in 1..Len(ts) |->
        IF Str(ts[x].id) = activeTournamentId
        THEN [ts[x] EXCEPT
                 !.matches = SelectSeq(ts[x].matches, LAMBDA m : m.id # matchId),
                 !.players = SelectSeq(ts[x].players,
                     LAMBDA p : \A y \in 1..Len(ts[x].matches) :
                         ts[x].matches[y].id = matchId =>
                             p \notin {ts[x].matches[y].team1.player1,
                                       ts[x].matches[y].team1.player2,
                                       ts[x].matches[y].team2.player1,
                                       ts[x].matches[y].team2.player2})]
        ELSE ts[x]]

\* setTournaments(prev => prev.map(...)) of handleDeleteMatch
DeleteMatch(ts, matchId) ==
    [x \in 1..Len(ts) |->
        IF Str(ts[x].id) = activeTournamentId
        THEN [ts[x] EXCEPT !.matches = SelectSeq(ts[x].matches, LAMBDA m : m.id # matchId)]
        ELSE ts[x]]

\* How many of the matches generated for t are gone.
Deleted(t) == Cardinality(Quads(Len(t.players))) - Len(t.matches)

handleDeleteMatch(matchId, confirmed) ==
    /\ mounted /\ view = "tournament" /\ ~isReadOnly
    /\ tournamentForDisplay # Null
    /\ \E y \in 1..Len(tournamentForDisplay.matches) :
            tournamentForDisplay.matches[y].id = matchId
    /\ Deleted(tournamentForDisplay) < MaxDeleted
    /\ IF confirmed
       THEN /\ tournaments' = DeleteMatch(tournaments, matchId)
            /\ storage' = PersistEffect(tournaments', viewOnlyTournament, storage)
       ELSE UNCHANGED <<tournaments, storage>>
    /\ lastAlert' = "none"
    /\ UNCHANGED <<mounted, hash, now, view, activeTournamentId, viewOnlyTournament,
                   players>>
    /\ Rendered

MatchIds(t) == {t.matches[y].id : y \in 1..Len(t.matches)}

Next ==
    \/ \E dt \in 0..MaxTick : Mount(dt)
    \/ \E text \in NameTexts, dt \in 0..MaxTick : handleAddPlayer(text, dt)
    \/ \E x \in 1..Len(players) : handleRemovePlayer(players[x].id)
    \/ \E form \in SetupForms, dt \in 0..MaxTick, seed \in 0..MaxSeed :
            handleCreateTournament(form, dt, seed)
    \/ CancelSetup
    \/ Len(tournaments) < MaxTournaments /\ handleStartNewTournament
    \/ \E x \in 1..Len(tournaments) : handleLoadTournament(tournaments[x].id)
    \/ \E x \in 1..Len(tournaments), confirmed \in BOOLEAN :
            handleDeleteTournament(tournaments[x].id, confirmed)
    \/ handleBackToList
    \/ ExitViewMode
    \/ \E matchId \in (IF tournamentForDisplay = Null THEN {}
                       ELSE MatchIds(tournamentForDisplay)),
          text1 \in ScoreTexts, text2 \in ScoreTexts :
            handleSave(matchId, text1, text2)
    \/ \E matchId \in (IF tournamentForDisplay = Null THEN {}
                       ELSE MatchIds(tournamentForDisplay)),
          confirmed \in BOOLEAN :
            handleDeleteMatch(matchId, confirmed)
    \/ Recompute

Spec == Init /\ [][Next]_vars


-----------------------------------------------------------------------------
(* Tournament creation on its own: the setup screen with a roster already  *)
(* built.  The rosters are those handleAddPlayer builds from the pool      *)
(* names in their order, each player added at the clock reading of the     *)
(* one before or up to MaxTick later.                                      *)

RECURSIVE RostersOf(_)
RostersOf(k) ==
    IF k = 0 THEN {<<>>}
    ELSE {Append(r, [id |-> (IF r = <<>> THEN ClockStart ELSE r[Len(r)].id) + dt,
                     name |-> PoolName(k)]) :
            r \in RostersOf(k - 1), dt \in 0..MaxTick}

SetupRosters ==
    {r \in UNION {RostersOf(k) : k \in 0..MaxRoster} :
        r = <<>> \/ r[Len(r)].id <= ClockStart + MaxClock}

InitCreate ==
    /\ mounted = TRUE
    /\ hash = NoHash
    /\ storage = ItemOf(<<>>)
    /\ players \in SetupRosters
    /\ now = IF players = <<>> THEN ClockStart ELSE players[Len(players)].id
    /\ tournaments = <<>>
    /\ view = "setup"
    /\ activeTournamentId = Null
    /\ viewOnlyTournament = Null
    /\ lastAlert = "none"
    /\ standings = <<>>

CreateAttempt ==
    \E form \in SetupForms, dt \in 0..MaxTick, seed \in 0..MaxSeed :
        handleCreateTournament(form, dt, seed)

NextCreate == CreateAttempt

SpecCreate == InitCreate /\ [][NextCreate]_vars

-----------------------------------------------------------------------------
(* Play on its own: the app right after handleCreateTournament has created *)
(* a tournament of MaxRoster players, then scores, deletions, the way back *)
(* to the list and the setup of a later tournament.                        *)

\* Rosters of MaxRoster players, the first added at the first reading of
\* the clock, the second at the same reading or later, every other at a
\* later reading than the one before.
PlayRosters ==
    {r \in SetupRosters :
        /\ Len(r) = MaxRoster
        /\ r[1].id = ClockStart
        /\ \A x \in 2..(Len(r) - 1) : r[x].id < r[x + 1].id}

\* The setup form with every field filled.
PlayForms == {f \in SetupForms : Trim(f.name) # <<>> /\ f.location # <<>> /\ f.time # <<>>}

\* What is typed into the two score fields of a card during play.
PlayScores ==
    {<<<<"1", "1">>, <<"5">>>>,
     <<<<"-", "1">>, <<"1", "1">>>>,
     <<<<"5">>, <<"5">>>>,
     <<<<>>, <<"5">>>>}

\* What is typed into the name field for a later tournament.
LaterNames == {PoolName(1), <<" ">>}

InitPlay ==
    /\ mounted = TRUE
    /\ hash = NoHash
    /\ players \in PlayRosters
    /\ now = players[Len(players)].id
    /\ \E form \in PlayForms, seed \in 0..MaxSeed :
            tournaments = <<NewTournament(players, form, now, seed)>>
    /\ storage = ItemOf(tournaments)
    /\ view = "tournament"
    /\ activeTournamentId = Str(tournaments[1].id)
    /\ viewOnlyTournament = Null
    /\ lastAlert = "none"
    /\ standings = calculateStandings(tournaments[1])

ScoreSaved ==
    \E matchId \in (IF tournamentForDisplay = Null THEN {}
                    ELSE MatchIds(tournamentForDisplay)),
       texts \in PlayScores :
        handleSave(matchId, texts[1], texts[2])

MatchDeleteAsked ==
    \E matchId \in (IF tournamentForDisplay = Null THEN {}
                    ELSE MatchIds(tournamentForDisplay)),
       confirmed \in BOOLEAN :
        handleDeleteMatch(matchId, confirmed)

NextPlay ==
    \/ ScoreSaved
    \/ MatchDeleteAsked
    \/ handleBackToList
    \/ \E x \in 1..Len(tournaments) : handleLoadTournament(tournaments[x].id)
    \/ handleStartNewTournament
    \/ \E text \in LaterNames, dt \in 0..MaxTick :
            Len(players) < MaxLater /\ handleAddPlayer(text, dt)
    \/ \E x \in 1..Len(players) : handleRemovePlayer(players[x].id)
    \/ CancelSetup
    \/ Recompute

SpecPlay == InitPlay /\ [][NextPlay]_vars

-----------------------------------------------------------------------------
(* Properties.                                                             *)

DistinctIds(ps) ==
    \A x \in 1..Len(ps), y \in 1..Len(ps) : x # y => ps[x].id # ps[y].id

\* The four players of a match, in the order team1 then team2.
Participants(m) ==
    <<m.team1.player1, m.team1.player2, m.team2.player1, m.team2.player2>>

ParticipantSet(m) == {Participants(m)[x] : x \in 1..4}

RosterSet(ps) == {ps[x] : x \in 1..Len(ps)}

\* n choose 4
Choose4(n) == (n * (n - 1) * (n - 2) * (n - 3)) \div 24

\* The step appends a tournament to the collection.
Created == Len(tournaments') = Len(tournaments) + 1
Newest == tournaments'[Len(tournaments')]

\* C1: when handleCreateTournament creates a tournament from a roster of
\* N >= 4 players with pairwise distinct ids, the tournament has exactly
\* C(N,4) matches, the four participants of every match have pairwise
\* distinct ids, and every 4-element subset of the roster is the participant
\* set of exactly one match, wherever the shuffle has put it.
C1_GeneratorCoversEveryFour ==
    [][(CreateAttempt /\ Created /\ Len(players) >= 4 /\ DistinctIds(players)) =>
          /\ Len(Newest.matches) = Choose4(Len(players))
          /\ \A y \in 1..Len(Newest.matches) : DistinctIds(Participants(Newest.matches[y]))
          /\ \A four \in {S \in SUBSET RosterSet(players) : Cardinality(S) = 4} :
                Cardinality({y \in 1..Len(Newest.matches) :
                                ParticipantSet(Newest.matches[y]) = four}) = 1
      ]_vars

\* A tournament of five players with distinct ids and its five matches.
C1_Witness ==
    /\ Len(tournaments) = 1
    /\ Len(tournaments[1].players) = 5
    /\ DistinctIds(tournaments[1].players)
    /\ Len(tournaments[1].matches) = 5

\* Match m is the one the loops build at roster positions q of ps.
BuiltAt(m, ps, q) ==
    /\ m.team1 = [player1 |-> ps[q[1]], player2 |-> ps[q[2]]]
    /\ m.team2 = [player1 |-> ps[q[3]], player2 |-> ps[q[4]]]

\* C2: every match of a created tournament is built at roster positions
\* i < j < k < l, team1 the players at i and j and team2 those at k and l,
\* with null scores and completed false; each such choice of positions has
\* exactly one match, so the shuffle changes the order of the matches and
\* nothing of their content.
C2_MatchesAreTheQuadruples ==
    [][(CreateAttempt /\ Created) =>
          LET n == Len(players)
              increasing == {q \in (1..n) \X (1..n) \X (1..n) \X (1..n) :
                                q[1] < q[2] /\ q[2] < q[3] /\ q[3] < q[4]}
          IN  /\ Newest.players = players
              /\ \A y \in 1..Len(Newest.matches) :
                    /\ \E q \in increasing : BuiltAt(Newest.matches[y], players, q)
                    /\ Newest.matches[y].score1 = Null
                    /\ Newest.matches[y].score2 = Null
                    /\ Newest.matches[y].completed = FALSE
              /\ \A q \in increasing :
                    Cardinality({y \in 1..Len(Newest.matches) :
                                    BuiltAt(Newest.matches[y], players, q)}) = 1
      ]_vars

\* A tournament of five players whose shuffle has moved the match of the
\* first four roster positions away from the front.
C2_Witness ==
    /\ Len(tournaments) = 1
    /\ Len(tournaments[1].players) = 5
    /\ Len(tournaments[1].matches) = 5
    /\ ~BuiltAt(tournaments[1].matches[1], tournaments[1].players, <<1, 2, 3, 4>>)

\* C3 as stated: creating from a roster of fewer than 4 players is a silent,
\* valid outcome, a tournament with an empty match list and no alert.
C3_SmallRosterGivesEmptySchedule ==
    [][(CreateAttempt /\ Len(players) < 4) =>
          /\ lastAlert' = "none"
          /\ Created
          /\ Newest.matches = <<>>
      ]_vars

\* C3 amended: handleCreateTournament refuses a roster of fewer than 4
\* players.  It shows the alert that at least 4 players are needed and
\* returns: no tournament is created, so no schedule, not even an empty
\* one, and the collection, the view and the active tournament are as
\* before; every tournament of the collection has at least 4 players.
C3_SmallRosterIsRefused ==
    [][/\ (CreateAttempt /\ Len(players) < 4) =>
              /\ lastAlert' = "needPlayers"
              /\ tournaments' = tournaments
              /\ view' = view
              /\ activeTournamentId' = activeTournamentId
              /\ storage' = storage
       /\ \A x \in 1..Len(tournaments') : Len(tournaments'[x].players) >= 4
      ]_vars

\* The alert is up after an attempt with three players; nothing was created.
C3_Witness ==
    /\ lastAlert = "needPlayers"
    /\ Len(players) = 3
    /\ tournaments = <<>>
    /\ view = "setup"


\* Every tournament the app holds: the collection and the view-only one.
HeldTournaments ==
    {tournaments[x] : x \in 1..Len(tournaments)}
        \cup (IF viewOnlyTournament = Null THEN {} ELSE {viewOnlyTournament})

MatchesOf(t) == {t.matches[y] : y \in 1..Len(t.matches)}

IsScore(x) == IsNum(x) /\ x.v >= 0

\* C4: in every reachable state every match of every tournament, of the
\* collection or decoded from a share link, is completed if and only if both
\* its scores are non-null integers >= 0.
C4_CompletedIffBothScoresValid ==
    \A t \in HeldTournaments : \A m \in MatchesOf(t) :
        m.completed <=> (IsScore(m.score1) /\ IsScore(m.score2))

\* C5: no match is partially scored: in every reachable state the two scores
\* of every match of every tournament, of the collection or decoded from a
\* share link, are both null or both non-null.
C5_NeverPartiallyScored ==
    \A t \in HeldTournaments : \A m \in MatchesOf(t) :
        (m.score1 = Null) <=> (m.score2 = Null)

\* C6: player ids are unique within the setup roster and within every
\* tournament created from it, whatever the clock showed at each addition.
C6_PlayerIdsUnique ==
    /\ DistinctIds(players)
    /\ \A x \in 1..Len(tournaments) : DistinctIds(tournaments[x].players)

\* C7: the id of every match of a created tournament is the four participant
\* ids in generation order joined with '-', the set of match ids is the one
\* the roster determines (so generating again from the same roster gives the
\* same set), and no two matches of a tournament share an id.
C7_MatchIdsReproducibleAndUnique ==
    \A x \in 1..Len(tournaments) :
        LET t == tournaments[x]
            n == Len(t.players)
            increasing == {q \in (1..n) \X (1..n) \X (1..n) \X (1..n) :
                              q[1] < q[2] /\ q[2] < q[3] /\ q[3] < q[4]}
        IN  /\ \A y \in 1..Len(t.matches) :
                  LET ps == Participants(t.matches[y])
                  IN  t.matches[y].id =
                          NumToText(ps[1].id) \o <<"-">> \o NumToText(ps[2].id) \o <<"-">>
                              \o NumToText(ps[3].id) \o <<"-">> \o NumToText(ps[4].id)
            /\ {t.matches[y].id : y \in 1..Len(t.matches)} =
                  {NumToText(t.players[q[1]].id) \o <<"-">> \o NumToText(t.players[q[2]].id)
                      \o <<"-">> \o NumToText(t.players[q[3]].id) \o <<"-">>
                      \o NumToText(t.players[q[4]].id) : q \in increasing}
            /\ \A y \in 1..Len(t.matches), z \in 1..Len(t.matches) :
                  y # z => t.matches[y].id # t.matches[z].id

\* C8: in every reachable state every player a match refers to is a player
\* of the roster of the match's tournament, for the tournaments of the
\* collection and for the one decoded from a share link.
C8_MatchPlayersAreInRoster ==
    \A t \in HeldTournaments : \A m \in MatchesOf(t) :
        ParticipantSet(m) \subseteq RosterSet(t.players)

\* The entries of standings st that belong to player p.
EntriesOf(st, p) ==
    {e \in 1..Len(st) : st[e].playerId = p.id /\ st[e].playerName = p.name}

IsZeroEntry(e) ==
    /\ e.wins = 0 /\ e.losses = 0 /\ e.pointsFor = 0 /\ e.pointsAgainst = 0
    /\ e.pointDifferential = 0 /\ e.matchesPlayed = 0

\* C9: the standings of a tournament hold exactly one entry per roster
\* player, and with no completed match every entry is all zeros.
C9_OneEntryPerPlayer ==
    \A t \in HeldTournaments :
        ~StandingsThrow(t) =>
            LET st == calculateStandings(t)
            IN  /\ Len(st) = Len(t.players)
                /\ \A x \in 1..Len(t.players) :
                      Cardinality(EntriesOf(st, t.players[x])) = 1
                /\ Completed(t) = {} => \A e \in 1..Len(st) : IsZeroEntry(st[e])

\* A score as the aggregation reads it.
ScoreValue(x) == IF IsNum(x) THEN x.v ELSE 0

OnTeam1(m, p) == p \in {m.team1.player1, m.team1.player2}
OwnScore(m, p) == IF OnTeam1(m, p) THEN ScoreValue(m.score1) ELSE ScoreValue(m.score2)
OtherScore(m, p) == IF OnTeam1(m, p) THEN ScoreValue(m.score2) ELSE ScoreValue(m.score1)

\* The completed matches of t that player p takes part in.
PlayedBy(t, p) == {y \in Completed(t) : p \in ParticipantSet(t.matches[y])}

RECURSIVE SumOwn(_, _, _)
SumOwn(t, p, ys) ==
    IF ys = {} THEN 0
    ELSE LET y == CHOOSE z \in ys : TRUE
         IN  OwnScore(t.matches[y], p) + SumOwn(t, p, ys \ {y})

RECURSIVE SumOther(_, _, _)
SumOther(t, p, ys) ==
    IF ys = {} THEN 0
    ELSE LET y == CHOOSE z \in ys : TRUE
         IN  OtherScore(t.matches[y], p) + SumOther(t, p, ys \ {y})

\* Entry e states what player p did in tournament t.
EntryIsTally(e, t, p) ==
    /\ e.matchesPlayed = Cardinality(PlayedBy(t, p))
    /\ e.pointsFor = SumOwn(t, p, PlayedBy(t, p))
    /\ e.pointsAgainst = SumOther(t, p, PlayedBy(t, p))
    /\ e.wins = Cardinality({y \in PlayedBy(t, p) :
                                OwnScore(t.matches[y], p) > OtherScore(t.matches[y], p)})
    /\ e.losses = Cardinality({y \in PlayedBy(t, p) :
                                  OwnScore(t.matches[y], p) < OtherScore(t.matches[y], p)})
    /\ e.pointDifferential = e.pointsFor - e.pointsAgainst

\* C10: in the standings of a tournament every roster player has an entry
\* whose matchesPlayed is the number of completed matches the player takes
\* part in, whose pointsFor and pointsAgainst are the sums of the own and of
\* the opposing team's scores over those matches, whose wins and losses
\* count those with the own score strictly greater and strictly smaller, and
\* whose pointDifferential is pointsFor - pointsAgainst; matches that are
\* not completed count for nothing.
C10_EntriesTallyCompletedMatches ==
    \A t \in HeldTournaments :
        ~StandingsThrow(t) =>
            LET st == calculateStandings(t)
            IN  \A x \in 1..Len(t.players) :
                    \E e \in EntriesOf(st, t.players[x]) :
                        EntryIsTally(st[e], t, t.players[x])


\* The tournaments for which C9 and C10 do hold: when the ids of the roster
\* are pairwise distinct, the standings have one entry per roster player and
\* every entry tallies the player's completed matches.
StandingsTallyWhenIdsDistinct ==
    \A t \in HeldTournaments :
        (~StandingsThrow(t) /\ DistinctIds(t.players)) =>
            LET st == calculateStandings(t)
            IN  /\ Len(st) = Len(t.players)
                /\ \A x \in 1..Len(t.players) :
                      /\ Cardinality(EntriesOf(st, t.players[x])) = 1
                      /\ \A e \in EntriesOf(st, t.players[x]) :
                            EntryIsTally(st[e], t, t.players[x])


\* The tournament t without its match at position y.
WithoutMatch(t, y) ==
    [t EXCEPT !.matches = SubSeq(@, 1, y - 1) \o SubSeq(@, y + 1, Len(@))]

\* A completed match whose two scores are the same number.
IsTie(m) ==
    m.completed /\ IsNum(m.score1) /\ IsNum(m.score2) /\ m.score1.v = m.score2.v

\* What the tied match at position y of t adds to the standings of t: every
\* participant's entry gains one match played and the tied score as points
\* for and points against, and no entry gains a win or a loss.
TieCounts(t, y) ==
    LET m == t.matches[y]
        st == calculateStandings(t)
        st0 == calculateStandings(WithoutMatch(t, y))
    IN  /\ \A p \in ParticipantSet(m) :
              \E e \in EntriesOf(st, p), e0 \in EntriesOf(st0, p) :
                  /\ st[e].matchesPlayed = st0[e0].matchesPlayed + 1
                  /\ st[e].pointsFor = st0[e0].pointsFor + m.score1.v
                  /\ st[e].pointsAgainst = st0[e0].pointsAgainst + m.score1.v
        /\ \A e \in 1..Len(st), e0 \in 1..Len(st0) :
              st[e].playerId = st0[e0].playerId =>
                  /\ st[e].wins = st0[e0].wins
                  /\ st[e].losses = st0[e0].losses

\* C11: in every reachable state, a completed match with score1 = score2
\* counts in the standings of its tournament as one more match played and
\* the score as points for and against for each of its four participants,
\* and as a win or a loss for nobody.
C11_TieCreditsNoWinOrLoss ==
    \A t \in HeldTournaments :
        ~StandingsThrow(t) =>
            \A y \in 1..Len(t.matches) : IsTie(t.matches[y]) => TieCounts(t, y)

\* The tournaments for which C11 does hold: those whose roster ids are
\* pairwise distinct.
TiePolicyWhenIdsDistinct ==
    \A t \in HeldTournaments :
        (~StandingsThrow(t) /\ DistinctIds(t.players)) =>
            \A y \in 1..Len(t.matches) : IsTie(t.matches[y]) => TieCounts(t, y)

\* A tournament with distinct roster ids holds a tied match.
TiePlayed ==
    \E t \in HeldTournaments :
        /\ DistinctIds(t.players)
        /\ \E y \in 1..Len(t.matches) : IsTie(t.matches[y])

\* The key (wins, differential, pointsFor, -losses) of a standings entry.
RankKey(e) == <<e.wins, e.pointDifferential, e.pointsFor, 0 - e.losses>>

\* The roster a standings sequence lists, entry by entry.
ListedPlayers(st) ==
    [e \in 1..Len(st) |-> [id |-> st[e].playerId, name |-> st[e].playerName]]

\* Entries of the standings of t that tie on all four criteria are in the
\* order of their players in the roster, and without a completed match the
\* standings list the roster in its order.
TiesInRosterOrder(t) ==
    LET st == calculateStandings(t)
    IN  /\ \A x \in 1..Len(t.players), y \in 1..Len(t.players) :
              x < y =>
                  \A a \in EntriesOf(st, t.players[x]), b \in EntriesOf(st, t.players[y]) :
                      RankKey(st[a]) = RankKey(st[b]) => a < b
        /\ Completed(t) = {} => ListedPlayers(st) = t.players

\* C13: in every reachable state, for the tournaments of the collection
\* (player ids are clock readings) and for the one decoded from a share
\* link (player ids 0..N-1), entries of the standings that tie on wins,
\* differential, pointsFor and losses are in roster order, and with no
\* completed match the standings are the roster in its order.
C13_TiesKeepRosterOrder ==
    \A t \in HeldTournaments : ~StandingsThrow(t) => TiesInRosterOrder(t)

\* The tournaments for which C13 does hold: those whose roster ids are
\* pairwise distinct.
TiesKeepRosterOrderWhenIdsDistinct ==
    \A t \in HeldTournaments :
        (~StandingsThrow(t) /\ DistinctIds(t.players)) => TiesInRosterOrder(t)


\* Key k1 is lexicographically at least key k2.
LexAtLeast(k1, k2) ==
    \/ k1 = k2
    \/ \E d \in 1..Len(k1) : k1[d] > k2[d] /\ \A c \in 1..(d - 1) : k1[c] = k2[c]

\* C12: in every reachable state the standings of a tournament are ordered
\* lexicographically by wins descending, then pointDifferential descending,
\* then pointsFor descending, then losses ascending: of two adjacent entries
\* the key (wins, differential, pointsFor, -losses) of the first is at least
\* that of the second.
C12_StandingsSortedLexicographically ==
    \A t \in HeldTournaments :
        ~StandingsThrow(t) =>
            LET st == calculateStandings(t)
            IN  \A e \in 1..(Len(st) - 1) : LexAtLeast(RankKey(st[e]), RankKey(st[e + 1]))

\* Standings in which wins decide against the differential: an entry with
\* more wins and a smaller differential stands before another, and two
\* entries level on wins are ordered by their differentials.
C12_Witness ==
    \E t \in HeldTournaments :
        /\ ~StandingsThrow(t)
        /\ LET st == calculateStandings(t)
           IN  /\ \E e \in 1..Len(st), f \in 1..Len(st) :
                      /\ e < f
                      /\ st[e].wins > st[f].wins
                      /\ st[e].pointDifferential < st[f].pointDifferential
               /\ \E e \in 1..Len(st), f \in 1..Len(st) :
                      /\ e < f
                      /\ st[e].wins = st[f].wins
                      /\ st[e].pointDifferential > st[f].pointDifferential


\* The name of a player a match refers to, undefined when the player is.
NameOf(p) == IF p = Undefined THEN Undefined ELSE Str(p.name)

\* The names of the four players of a match, team1 then team2.
TeamNames(m) ==
    <<NameOf(m.team1.player1), NameOf(m.team1.player2),
      NameOf(m.team2.player1), NameOf(m.team2.player2)>>

\* Decoded tournament d has the name, the creation timestamp, the player
\* names and the matches (teams by name, scores, completed) of t.
SameContent(d, t) ==
    /\ d # Threw
    /\ d.name = t.name
    /\ d.createdAt = t.createdAt
    /\ [x \in 1..Len(d.players) |-> d.players[x].name] =
           [x \in 1..Len(t.players) |-> t.players[x].name]
    /\ Len(d.matches) = Len(t.matches)
    /\ \A y \in 1..Len(t.matches) :
          /\ TeamNames(d.matches[y]) = TeamNames(t.matches[y])
          /\ d.matches[y].score1 = t.matches[y].score1
          /\ d.matches[y].score2 = t.matches[y].score2
          /\ d.matches[y].completed = t.matches[y].completed

\* What decoding makes of the link handleShare builds for t.
Reopened(t) == DecodeToken(handleShare(t), now)

\* C14: in every reachable state, decoding the token handleShare builds for
\* a tournament of the collection gives a tournament with the same name,
\* location, time and creation timestamp, the same player names in the same
\* order, and the same sequence of matches: the same teams by name, the same
\* scores and the same completed flag.
C14_ShareRoundTrip ==
    \A x \in 1..Len(tournaments) :
        /\ SameContent(Reopened(tournaments[x]), tournaments[x])
        /\ Reopened(tournaments[x]).location = tournaments[x].location
        /\ Reopened(tournaments[x]).time = tournaments[x].time

\* What does hold of the round trip: for a tournament whose roster ids are
\* pairwise distinct everything comes back but an empty location or time,
\* which comes back as undefined.
ShareRoundTripWhenIdsDistinct ==
    \A x \in 1..Len(tournaments) :
        DistinctIds(tournaments[x].players) =>
            /\ SameContent(Reopened(tournaments[x]), tournaments[x])
            /\ Reopened(tournaments[x]).location = OrUndefined(tournaments[x].location)
            /\ Reopened(tournaments[x]).time = OrUndefined(tournaments[x].time)


\* The object a token holds when it is base64 of a deflate stream of JSON.
HoldsJson(token) ==
    /\ token.t = "base64"
    /\ token.bytes.t = "deflate"
    /\ token.bytes.text.t = "json"

TokenData(token) == token.bytes.text.data

\* The token holds a roster and match records, all of them arrays.
WellShaped(token) ==
    /\ HoldsJson(token)
    /\ TokenData(token).p # Undefined
    /\ TokenData(token).m # Undefined
    /\ \A x \in 1..Len(TokenData(token).m.items) : TokenData(token).m.items[x] # Null

\* One of the four player indices of a match record of the token is no
\* position of the token's roster.
IndexOutOfBounds(token) ==
    /\ WellShaped(token)
    /\ \E x \in 1..Len(TokenData(token).m.items) :
          \E k \in 1..4 :
              LET r == TokenData(token).m.items[x].items
              IN  /\ k <= Len(r)
                  /\ ~(IsNum(r[k]) /\ r[k].v >= 0
                          /\ r[k].v < Len(TokenData(token).p.items))

\* C15: when the app is opened on a share link whose match records hold a
\* player index outside the decoded roster, the decode fails: no view-only
\* tournament is set and the view does not switch to the tournament screen.
C15_IndexOutOfBoundsIsRejected ==
    (hash.view /\ IndexOutOfBounds(hash.token)) =>
        (viewOnlyTournament = Null /\ view # "tournament")

\* A token on which a step of the decode fails: text that is no base64, the
\* empty text, bytes that are no deflate stream, text that is no JSON, and
\* JSON of the wrong shape: no roster array, no match array, or a match
\* record that is no array.
FailingToken(token) == ~WellShaped(token)

\* C16: the decode is all or nothing.  When the app is opened on a share
\* link and a step of the decode fails, the one error path is taken: the
\* invalid-link alert is shown and the fragment cleared, the view-only
\* tournament stays null, the view stays on the tournament list and the
\* collection is not touched.  A view-only tournament is only ever set from
\* a token on which no step fails, and then with its whole roster and every
\* one of its match records.
C16_DecodeIsAllOrNothing ==
    [][/\ (~mounted /\ mounted' /\ hash.view /\ FailingToken(hash.token)) =>
              /\ lastAlert' = "invalidLink"
              /\ hash' = NoHash
              /\ viewOnlyTournament' = Null
              /\ view' = "tournamentList"
              /\ tournaments' = tournaments
       /\ (viewOnlyTournament' # viewOnlyTournament) =>
              /\ hash.view /\ ~FailingToken(hash.token)
              /\ view' = "tournament"
              /\ Len(viewOnlyTournament'.players) = Len(TokenData(hash.token).p.items)
              /\ Len(viewOnlyTournament'.matches) = Len(TokenData(hash.token).m.items)
      ]_vars

\* The app after it was opened on a link that does not decode.
C16_Witness ==
    /\ mounted
    /\ lastAlert = "invalidLink"
    /\ hash = NoHash
    /\ viewOnlyTournament = Null
    /\ view = "tournamentList"

\* The tournaments localStorage holds.
StoredCollection(st) == IF st = NoItem THEN <<>> ELSE st.parsed

\* C17: no step taken while the app is opened on a share link, the mount
\* on a fragment that starts with #/view/ or any later step in view-only
\* mode, changes the tournament collection that localStorage holds.
C17_ShareLinkLeavesStorageAlone ==
    [][((~mounted /\ hash.view) \/ isReadOnly) =>
          StoredCollection(storage') = StoredCollection(storage)]_vars


\* The match ids a card of the tournament on display can carry.
CardIds == IF tournamentForDisplay = Null THEN {} ELSE MatchIds(tournamentForDisplay)

\* The step is handleSave on card matchId with two texts that parse.
SavesScore(matchId, text1, text2) ==
    /\ handleSave(matchId, text1, text2)
    /\ ParseInt(text1) # NaN
    /\ ParseInt(text2) # NaN

\* The collection after the step is the one before with score1, score2 and
\* completed set on one match of the active tournament, that with id
\* matchId, and nothing else changed.
OneMatchScored(matchId, score1, score2) ==
    \E x \in 1..Len(tournaments) :
        /\ Str(tournaments[x].id) = activeTournamentId
        /\ \E y \in 1..Len(tournaments[x].matches) :
              /\ tournaments[x].matches[y].id = matchId
              /\ tournaments' =
                    [tournaments EXCEPT ![x].matches[y] =
                        [@ EXCEPT !.score1 = score1, !.score2 = score2,
                                  !.completed = TRUE]]

\* C18: a score update (matchId, s1, s2) sets score1 = s1, score2 = s2 and
\* completed = true on the match with that id in the active tournament and
\* changes nothing else: every other match of the tournament, its roster
\* and metadata, and every other tournament are as before.
C18_ScoreUpdateTouchesOneMatch ==
    [][\A matchId \in CardIds, text1 \in ScoreTexts, text2 \in ScoreTexts :
           SavesScore(matchId, text1, text2) =>
               OneMatchScored(matchId, ParseInt(text1), ParseInt(text2))
      ]_vars

\* The tournament on display has pairwise distinct roster ids.
DisplayedIdsDistinct ==
    tournamentForDisplay # Null /\ DistinctIds(tournamentForDisplay.players)

\* The tournaments for which C18 does hold: those with distinct roster ids.
ScoreUpdateTouchesOneMatchWhenIdsDistinct ==
    [][\A matchId \in CardIds, text1 \in ScoreTexts, text2 \in ScoreTexts :
           (SavesScore(matchId, text1, text2) /\ DisplayedIdsDistinct) =>
               OneMatchScored(matchId, ParseInt(text1), ParseInt(text2))
      ]_vars

\* The sequence of match ids of every tournament of collection ts.
IdSequences(ts) ==
    [x \in 1..Len(ts) |-> [y \in 1..Len(ts[x].matches) |-> ts[x].matches[y].id]]

\* The collection after the step is the one before without one match of
\* the active tournament, that with id matchId, the others in their order.
OneMatchRemoved(matchId) ==
    \E x \in 1..Len(tournaments) :
        /\ Str(tournaments[x].id) = activeTournamentId
        /\ \E y \in 1..Len(tournaments[x].matches) :
              /\ tournaments[x].matches[y].id = matchId
              /\ tournaments' =
                    [tournaments EXCEPT ![x] = WithoutMatch(tournaments[x], y)]

\* What C19 says of one step.
OrderKept ==
    /\ \A matchId \in CardIds, text1 \in ScoreTexts, text2 \in ScoreTexts :
          handleSave(matchId, text1, text2) =>
              IdSequences(tournaments') = IdSequences(tournaments)
    /\ \A matchId \in CardIds :
          /\ handleDeleteMatch(matchId, TRUE) => OneMatchRemoved(matchId)
          /\ handleDeleteMatch(matchId, FALSE) => tournaments' = tournaments

\* C19: the order of the matches is kept across edits: a score update
\* leaves the sequence of match ids of every tournament as it was, a
\* confirmed deletion removes exactly the one targeted match and keeps the
\* others in their order, and a deletion that is not confirmed changes
\* nothing.
C19_MatchOrderPreserved == [][OrderKept]_vars

\* The tournaments for which C19 does hold: those with distinct roster ids.
MatchOrderPreservedWhenIdsDistinct == [][DisplayedIdsDistinct => OrderKept]_vars

\* What stays of a match whatever is saved on it.
Fixture(m) == [id |-> m.id, team1 |-> m.team1, team2 |-> m.team2]

\* Tournament b is tournament a after play: the same id, roster and
\* metadata, and the matches of b are matches of a, teams unchanged.
NotRestructured(a, b) ==
    /\ b.id = a.id
    /\ b.players = a.players
    /\ b.name = a.name /\ b.createdAt = a.createdAt
    /\ b.location = a.location /\ b.time = a.time
    /\ MatchIds(b) \subseteq MatchIds(a)
    /\ Len(b.matches) <= Len(a.matches)
    /\ \A y \in 1..Len(b.matches) :
          \E z \in 1..Len(a.matches) : Fixture(b.matches[y]) = Fixture(a.matches[z])

\* C20: a tournament is never restructured after its creation.  Over every
\* step that deletes no tournament (score updates, match deletions, the
\* setup of a later tournament, load and back to list) every tournament of
\* the collection keeps its roster, players and order, the participants of
\* every match that is still there are as before, and its set of match ids
\* is a subset of what it was; the view-only tournament never changes once
\* it is set.
C20_NeverRestructured ==
    [][/\ Len(tournaments') >= Len(tournaments) =>
              \A x \in 1..Len(tournaments) :
                  NotRestructured(tournaments[x], tournaments'[x])
       /\ viewOnlyTournament # Null => viewOnlyTournament' = viewOnlyTournament
      ]_vars

\* A tournament with a match played and a match deleted, its roster as
\* created, while the setup form holds the first player of a later one.
C20_Witness ==
    /\ view = "setup"
    /\ Len(players) = 1
    /\ Len(tournaments) = 1
    /\ tournaments[1].players \in PlayRosters
    /\ Completed(tournaments[1]) # {}
    /\ Len(tournaments[1].matches) < Choose4(Len(tournaments[1].players))


\* The aggregation computed from scratch over the tournament on display.
FromScratch ==
    IF tournamentForDisplay # Null /\ StandingsThrow(tournamentForDisplay) THEN Threw
    ELSE calculateStandings(tournamentForDisplay)

\* C21: the standings on display are never stale: in every reachable state,
\* after whatever score updates, re-scorings of a completed match and match
\* deletions, the value the standings memo holds is calculateStandings of
\* the tournament on display as it is now, so that only its current matches
\* count and each with its latest scores.
C21_StandingsNeverStale == standings = FromScratch

\* Standings on display after play: a match is gone, another is completed
\* and counted.
C21_Witness ==
    /\ mounted /\ view = "tournament" /\ ~isReadOnly
    /\ tournamentForDisplay # Null
    /\ Len(tournamentForDisplay.matches) < Choose4(Len(tournamentForDisplay.players))
    /\ Completed(tournamentForDisplay) # {}
    /\ standings = FromScratch
    /\ \E e \in 1..Len(standings) : standings[e].matchesPlayed > 0

StoredIndices(matchData) == [k \in 1..4 |-> Element(matchData, k - 1)]

\* idx is a 0-based position of the roster ps.
IsPosition(ps, idx) == IsNum(idx) /\ idx.v >= 0 /\ idx.v < Len(ps)

\* Tournament t is the data of the token decoded as described: the roster
\* holds the names of the token in their order, each with its 0-based
\* position as id, so that the ids are pairwise distinct and ascending; the
\* matches are the records of the token in their order, each with the roster
\* entries at its four stored indices as players and with the four indices
\* joined with '-' as id.
DecodedAsStored(data, t) ==
    /\ Len(t.players) = Len(data.p.items)
    /\ \A x \in 1..Len(t.players) :
          /\ t.players[x].id = x - 1
          /\ t.players[x].name = data.p.items[x]
    /\ DistinctIds(t.players)
    /\ \A x \in 1..Len(t.players), y \in 1..Len(t.players) :
          x < y => t.players[x].id < t.players[y].id
    /\ Len(t.matches) = Len(data.m.items)
    /\ \A y \in 1..Len(t.matches) :
          LET idx == StoredIndices(data.m.items[y])
          IN  /\ \A k \in 1..4 :
                    /\ IsPosition(t.players, idx[k])
                    /\ Participants(t.matches[y])[k] = t.players[idx[k].v + 1]
              /\ \A k \in 1..4 : IsNum(idx[k])
              /\ t.matches[y].id =
                    NumToText(idx[1].v) \o <<"-">> \o NumToText(idx[2].v) \o <<"-">>
                        \o NumToText(idx[3].v) \o <<"-">> \o NumToText(idx[4].v)

\* The step is the mount on a share link, and it sets a view-only tournament.
Decodes == ~mounted /\ mounted' /\ hash.view /\ viewOnlyTournament' # Null

\* C23: the tournament the mount sets from a share link has a roster in
\* which each name of the link carries its 0-based position as id, the ids
\* pairwise distinct and in roster order, and matches each of which
\* references the roster entries at its four stored indices and has those
\* four indices joined with '-' as id.
C23_DecodedIdsArePositions ==
    [][Decodes => DecodedAsStored(TokenData(hash.token), viewOnlyTournament')]_vars

\* The same for the links all of whose stored indices are positions of the
\* roster.
DecodedIdsArePositionsWhenInBounds ==
    [][(Decodes /\ ~IndexOutOfBounds(hash.token)) =>
          DecodedAsStored(TokenData(hash.token), viewOnlyTournament')]_vars

\* A link was decoded whose records hold positions of the roster only.
DecodedInBounds ==
    /\ mounted /\ hash.view /\ viewOnlyTournament # Null
    /\ ~IndexOutOfBounds(hash.token)
    /\ viewOnlyTournament.matches # <<>>


\* Out of view-only mode, localStorage holds the collection in memory.
StorageInStep ==
    (mounted /\ viewOnlyTournament = Null) => storage = ItemOf(tournaments)

\* The step is the start-up, and the app is out of view-only mode after it.
StartsUpEditable == ~mounted /\ mounted' /\ viewOnlyTournament' = Null

\* Every tournament localStorage held before the step it holds after it.
StoredTournamentsKept ==
    \A x \in 1..Len(StoredCollection(storage)) :
        \E y \in 1..Len(StoredCollection(storage')) :
            StoredCollection(storage')[y] = StoredCollection(storage)[x]

\* C24: out of view-only mode, once the effects of a step have run (the
\* initial load, a tournament created, a score saved, a match deleted, a
\* tournament deleted) localStorage holds exactly the collection in memory;
\* and the start-up, with its load and its save effect, loses no tournament
\* that localStorage held before it.
C24_StorageFollowsCollection ==
    /\ []StorageInStep
    /\ [][StartsUpEditable => StoredTournamentsKept]_vars

\* The first half of C24 alone.
StorageFollowsCollectionAfterStartUp == []StorageInStep

\* The second half of C24 for the start-up on a fragment that is no share
\* link, the one that loads the collection.
StartUpWithoutLinkKeepsStored ==
    [][(StartsUpEditable /\ ~hash.view) =>
          /\ StoredTournamentsKept
          /\ tournaments' = StoredCollection(storage)]_vars

\* Tournaments were stored, the app started without a share link and the
\* collection has changed since: localStorage follows.
StoredAndChanged ==
    /\ mounted /\ viewOnlyTournament = Null /\ ~hash.view
    /\ tournaments # <<>>
    /\ tournaments # <<StoredTournament>>
    /\ storage = ItemOf(tournaments)


\* Every match of t references four distinct players of the roster of t.
FourRosterPlayersEach(t) ==
    \A m \in MatchesOf(t) :
        /\ ParticipantSet(m) \subseteq RosterSet(t.players)
        /\ Cardinality(ParticipantSet(m)) = 4

RECURSIVE Total(_, _)
\* The sum of a field over the entries of the standings st.
Total(st, field) ==
    IF st = <<>> THEN 0 ELSE Head(st)[field] + Total(Tail(st), field)

\* The scores of the completed match m are counted as equal.
CountedAsTie(m) == m.completed /\ ScoreValue(m.score1) = ScoreValue(m.score2)

\* The completed matches of t in which a player with the id of entry e
\* takes part.
MatchesOfEntry(t, e) ==
    {y \in Completed(t) : \E p \in ParticipantSet(t.matches[y]) : p.id = e.playerId}

\* The standings st of tournament t are balanced: as many wins as losses,
\* as many points for as against, differentials that sum to 0, and for
\* every entry at most as many wins and losses as matches played, and as
\* many when none of its matches is a tie.
Conserved(t, st) ==
    /\ Total(st, "wins") = Total(st, "losses")
    /\ Total(st, "pointsFor") = Total(st, "pointsAgainst")
    /\ Total(st, "pointDifferential") = 0
    /\ \A e \in 1..Len(st) :
          /\ st[e].wins + st[e].losses <= st[e].matchesPlayed
          /\ (\A y \in MatchesOfEntry(t, st[e]) : ~CountedAsTie(t.matches[y])) =>
                st[e].wins + st[e].losses = st[e].matchesPlayed

\* C25: conservation in the standings.  For every tournament whose matches
\* each reference four distinct players of its roster, the wins of all
\* entries sum to the same number as the losses, the points for to the same
\* number as the points against, so that the differentials sum to 0, and
\* every entry has wins + losses <= matchesPlayed, with equality when its
\* player has no tied match.
C25_StandingsConserved ==
    \A t \in HeldTournaments :
        (FourRosterPlayersEach(t) /\ ~StandingsThrow(t)) =>
            Conserved(t, calculateStandings(t))

\* A tournament with a tie and a won match counted: an entry with fewer
\* wins and losses than matches played, an entry with a win.
C25_Witness ==
    \E t \in HeldTournaments :
        /\ FourRosterPlayersEach(t)
        /\ \E y \in Completed(t) : CountedAsTie(t.matches[y])
        /\ \E y \in Completed(t) : ~CountedAsTie(t.matches[y])
        /\ LET st == calculateStandings(t)
           IN  /\ \E e \in 1..Len(st) : st[e].wins + st[e].losses < st[e].matchesPlayed
               /\ \E e \in 1..Len(st) : st[e].wins > 0
               /\ Total(st, "pointsFor") > 0

=============================================================================
